---------------------------- MODULE Spec2Model ----------------------------
(***************************************************************************)
(* A model of the two Streamlit entry points of the repository,            *)
(* streamlit_cancer_app.py and streamlit_app.py.  A Streamlit script is    *)
(* re-executed from its first line on every user interaction, so every     *)
(* interaction is one action that changes a widget and runs the whole      *)
(* script (a "pass") down to its normal end, to st.stop() or to the first  *)
(* uncaught exception.                                                     *)
(*                                                                         *)
(* Numbers are integers.  Median_Income of the demo table is held in       *)
(* thousands of dollars and its three rate columns in halves; the normal   *)
(* variates are whole standard deviations, which makes the coefficients    *)
(* 0.001, 0.0003 and 0.0002 of load_demo_data exact.                       *)
(***************************************************************************)
EXTENDS Integers, Sequences, FiniteSets, TLC

VARIABLES
    app,            \* the entry point this server process runs
    uploaded_file,  \* st.file_uploader's value: NoFile or an uploaded file
    use_demo,       \* the "Use demo data instead" checkbox
    x_sel,          \* the X-axis selectbox: Default or a chosen index
    y_sel,          \* the Y-axis selectbox: Default or a chosen index
    run,            \* what the last pass of the script bound and rendered
    cache,          \* st.cache_data's entry for load_demo_data
    rng,            \* the state of numpy's global random generator
    returned,       \* what the last two calls of load_demo_data returned
    draws,          \* one row's draws of the normal variates
    row,            \* the row load_demo_data computes from the draws
    coefficient,    \* a correlation coefficient, in hundredths
    label           \* the strength label rendered for it

vars == <<app, uploaded_file, use_demo, x_sel, y_sel, run, cache, rng,
          returned, draws, row, coefficient, label>>

(***************************************************************************)
(* Bounds of the model                                                     *)
(***************************************************************************)
\* rows of the demo table (n of load_demo_data, 100 in the source)
DemoRows == 3
\* rows of an uploaded table
MaxRows == 2
\* states of the global random generator
RngMod == 16
\* the largest draw of a standard normal variate, in standard deviations
ZMax == 4
\* the largest coefficient, in hundredths
RMax == 100
\* fillings of an uploaded layout
Variants == 6

(***************************************************************************)
(* Program constants                                                       *)
(***************************************************************************)
Seed == 42
XDefaultIndex == 2
YDefaultIndex == 5
StrongThreshold == 70
ModerateThreshold == 40
CancerRateFloor == 100

Default == -1

(***************************************************************************)
(* Cells, columns and tables (pandas DataFrame)                            *)
(***************************************************************************)
I(n) == [k |-> "int", v |-> n, s |-> ""]
F(n) == [k |-> "float", v |-> n, s |-> ""]
S(t) == [k |-> "str", v |-> 0, s |-> t]
B(b) == [k |-> "bool", v |-> IF b THEN 1 ELSE 0, s |-> ""]
NaN == [k |-> "nan", v |-> 0, s |-> ""]
\* the whole number 2^63 + n, which no int64 holds
U(n) == [k |-> "uint", v |-> n, s |-> ""]

Column(name, dtype, vals) == [name |-> name, dtype |-> dtype, vals |-> vals]
DataFrame(cols) == [bound |-> TRUE, cols |-> cols]
\* the name df before any assignment to it
Unbound == [bound |-> FALSE, cols |-> <<>>]

ColumnNames(df) == [i \in 1..Len(df.cols) |-> df.cols[i].name]
HasColumn(df, name) == \E i \in 1..Len(df.cols) : df.cols[i].name = name
GetColumn(df, name) ==
    df.cols[CHOOSE i \in 1..Len(df.cols) : df.cols[i].name = name]

RECURSIVE SumOver(_, _)
SumOver(f, n) == IF n = 0 THEN 0 ELSE f[n] + SumOver(f, n - 1)

(***************************************************************************)
(* numpy's global random generator.  The generator is a deterministic      *)
(* function of its state: seeding sets the state, every draw advances it.  *)
(***************************************************************************)
SeedState(seed) == seed % RngMod
Advance1(s) == (5 * s + 3) % RngMod
RECURSIVE Advance(_, _)
Advance(s, k) == IF k = 0 THEN s ELSE Advance(Advance1(s), k - 1)
\* a standard normal variate, in whole standard deviations
StdNormal(s) == (s % 5) - 2
RegionChoices == <<"Northeast", "Midwest", "South", "West">>

(***************************************************************************)
(* load_demo_data: one row from its draws                                  *)
(***************************************************************************)
MedianIncomeOf(z) == 45 + 15 * z
PovertyRateOf(z) == 15 + 5 * z
EducationLevelOf(z) == 25 + 10 * z
Maximum(a, b) == IF a >= b THEN a ELSE b

\* twice the rate, from the income in thousands, the poverty rate and the noise
CancerRateUnfloored(income, poverty, noise) ==
    2 * 150 - 2 * income + 2 * 2 * poverty + 2 * noise
CancerRateOf(income, poverty, noise) ==
    Maximum(CancerRateUnfloored(income, poverty, noise), CancerRateFloor)
LungCancerOf(income, poverty, noise) ==
    2 * 50 - (2 * 3 * income) \div 10 + 3 * poverty + 2 * noise
BreastCancerOf(income, poverty, noise) ==
    2 * 40 - (2 * 2 * income) \div 10 + poverty + 2 * noise

\* d: the standard normal draws behind one row, r: its region
DemoRow(d, r) ==
    LET income == MedianIncomeOf(d.income)
        poverty == PovertyRateOf(d.poverty)
    IN  [Region |-> r,
         Median_Income |-> income,
         Poverty_Rate |-> poverty,
         Education_Level |-> EducationLevelOf(d.education),
         Cancer_Rate |-> CancerRateOf(income, poverty, 10 * d.noise_cancer),
         Lung_Cancer_Rate |-> LungCancerOf(income, poverty, 5 * d.noise_lung),
         Breast_Cancer_Rate |->
             BreastCancerOf(income, poverty, 8 * d.noise_breast)]

\* the standard normal draws and the region of row i, the arrays being drawn
\* one after the other from generator state s0, n draws each
RowDraws(s0, n, i) ==
    [income |-> StdNormal(Advance(s0, i)),
     poverty |-> StdNormal(Advance(s0, n + i)),
     education |-> StdNormal(Advance(s0, 2 * n + i)),
     noise_cancer |-> StdNormal(Advance(s0, 3 * n + i)),
     noise_lung |-> StdNormal(Advance(s0, 4 * n + i)),
     noise_breast |-> StdNormal(Advance(s0, 5 * n + i))]
RowRegion(s0, n, i) ==
    RegionChoices[(Advance(s0, 6 * n + i) % Len(RegionChoices)) + 1]

\* pd.DataFrame({...}) of the rows
DemoFrame(rows) ==
    DataFrame(<<
        Column("County", "object",
               [i \in 1..Len(rows) |-> [k |-> "str", v |-> i, s |-> "County_"]]),
        Column("Region", "object",
               [i \in 1..Len(rows) |-> S(rows[i].Region)]),
        Column("Median_Income", "float64",
               [i \in 1..Len(rows) |-> F(rows[i].Median_Income)]),
        Column("Poverty_Rate", "float64",
               [i \in 1..Len(rows) |-> F(rows[i].Poverty_Rate)]),
        Column("Education_Level", "float64",
               [i \in 1..Len(rows) |-> F(rows[i].Education_Level)]),
        Column("Cancer_Rate", "float64",
               [i \in 1..Len(rows) |-> F(rows[i].Cancer_Rate)]),
        Column("Lung_Cancer_Rate", "float64",
               [i \in 1..Len(rows) |-> F(rows[i].Lung_Cancer_Rate)]),
        Column("Breast_Cancer_Rate", "float64",
               [i \in 1..Len(rows) |-> F(rows[i].Breast_Cancer_Rate)]) >>)

\* the body of load_demo_data run from generator state s0
GenerateFrom(s0) ==
    [value |-> DemoFrame([i \in 1..DemoRows |->
                  DemoRow(RowDraws(s0, DemoRows, i), RowRegion(s0, DemoRows, i))]),
     rng |-> Advance(s0, 7 * DemoRows)]

\* a body that forgets np.random.seed(42)
GenerateUnseeded(g) == GenerateFrom(g)
\* the body of load_demo_data, entered with the global generator in state g
GenerateDemo(g) == GenerateFrom(SeedState(Seed))

EmptyCache == [filled |-> FALSE, value |-> Unbound]

\* load_demo_data() under @st.cache_data: a hit returns the stored value and
\* does not run the body, a miss runs it and stores what it returns.
Miss(out) ==
    [value |-> out.value, cache |-> [filled |-> TRUE, value |-> out.value],
     rng |-> out.rng, hit |-> FALSE]
LoadDemoData(c, g) ==
    IF c.filled
    THEN [value |-> c.value, cache |-> c, rng |-> g, hit |-> TRUE]
    ELSE Miss(GenerateDemo(g))

(***************************************************************************)
(* Uploaded files and pandas' readers                                      *)
(***************************************************************************)
NoFile == [ext |-> "", format |-> "", grid |-> <<>>]
UploadedFile(ext, format, grid) == [ext |-> ext, format |-> format, grid |-> grid]

IsNumber(c) == c.k \in {"int", "float", "uint"}
IsMissing(c) == c.k = "nan"

\* The dtype pandas' parsers infer for a column of parsed cells.  A column
\* without any row is object; whole numbers are int64 when they all fit,
\* uint64 when one is beyond int64 and none is negative, and are left as
\* text otherwise; numbers with a fraction or beside a missing value are
\* float64 (as is a column of missing values only); anything mixed with
\* text is object.
InferDtype(vals) ==
    IF Len(vals) = 0 THEN "object"
    ELSE IF \A i \in 1..Len(vals) : vals[i].k = "int" THEN "int64"
    ELSE IF \A i \in 1..Len(vals) : vals[i].k \in {"int", "uint"}
         THEN IF \A i \in 1..Len(vals) : vals[i].v >= 0 THEN "uint64"
              ELSE "object"
    ELSE IF \A i \in 1..Len(vals) : IsNumber(vals[i]) \/ IsMissing(vals[i])
         THEN "float64"
    ELSE IF \A i \in 1..Len(vals) : vals[i].k = "bool" THEN "bool"
    ELSE "object"

\* the cells as the column of that dtype stores them
AsType(vals, dtype) ==
    IF dtype = "float64"
    THEN [i \in 1..Len(vals) |->
             IF vals[i].k = "int" THEN F(vals[i].v) ELSE vals[i]]
    ELSE vals

ParseGrid(grid) ==
    DataFrame([j \in 1..Len(grid) |->
        LET dtype == InferDtype(grid[j].vals)
        IN  Column(grid[j].name, dtype, AsType(grid[j].vals, dtype))])

\* pd.read_csv / pd.read_excel: the table, or an exception when the bytes
\* are not of the reader's format
ReadCsv(file) ==
    IF file.format = "csv"
    THEN [ok |-> TRUE, df |-> ParseGrid(file.grid)]
    ELSE [ok |-> FALSE, df |-> Unbound]
ReadExcel(file) ==
    IF file.format = "xlsx"
    THEN [ok |-> TRUE, df |-> ParseGrid(file.grid)]
    ELSE [ok |-> FALSE, df |-> Unbound]
\* the reader the name's ending selects in streamlit_cancer_app.py
ReadUpload(file) ==
    IF file.ext = ".csv" THEN ReadCsv(file) ELSE ReadExcel(file)

(***************************************************************************)
(* Column classification                                                   *)
(***************************************************************************)
NumericDtypes == {"float64", "int64"}
IsNumericColumn(c) == c.dtype \in NumericDtypes

\* [col for col in df.columns if df[col].dtype in ['float64', 'int64']]
HistOptions(df) ==
    LET kept == SelectSeq(df.cols, IsNumericColumn)
    IN  [i \in 1..Len(kept) |-> kept[i].name]

\* df.select_dtypes(include=['float64', 'int64'])
SelectDtypes(df) == DataFrame(SelectSeq(df.cols, IsNumericColumn))

(***************************************************************************)
(* Pearson correlation of two columns (Series.corr)                        *)
(***************************************************************************)
\* A coefficient r = cov / sqrt(varx * vary) is held exactly, as the three
\* sums it is computed from.
CoefNaN == [nan |-> TRUE, cov |-> 0, varx |-> 1, vary |-> 1]
Coef(cov, varx, vary) == [nan |-> FALSE, cov |-> cov, varx |-> varx, vary |-> vary]
\* the coefficient h / 100
CoefOfHundredths(h) == Coef(h, 100, 100)

Abs(n) == IF n < 0 THEN -n ELSE n

\* a / b > c / d for naturals with b, d > 0, by continued fractions (no
\* product is formed, so nothing leaves the machine integers)
RECURSIVE FracGreater(_, _, _, _)
FracGreater(a, b, c, d) ==
    IF a \div b # c \div d THEN a \div b > c \div d
    ELSE IF a % b = 0 THEN FALSE
    ELSE IF c % d = 0 THEN TRUE
    ELSE FracGreater(d, c % d, b, a % b)

PairedRows(xs, ys) ==
    {i \in 1..Len(xs) : ~IsMissing(xs[i]) /\ ~IsMissing(ys[i])}

SeriesCorr(xs, ys) ==
    LET paired == PairedRows(xs, ys)
        n == Cardinality(paired)
        term(f(_)) == [i \in 1..Len(xs) |-> IF i \in paired THEN f(i) ELSE 0]
        x(i) == xs[i].v
        y(i) == ys[i].v
        xy(i) == xs[i].v * ys[i].v
        xx(i) == xs[i].v * xs[i].v
        yy(i) == ys[i].v * ys[i].v
        sx == SumOver(term(x), Len(xs))
        sy == SumOver(term(y), Len(xs))
        cov == n * SumOver(term(xy), Len(xs)) - sx * sy
        varx == n * SumOver(term(xx), Len(xs)) - sx * sx
        vary == n * SumOver(term(yy), Len(xs)) - sy * sy
    IN  IF n = 0 \/ varx = 0 \/ vary = 0
        THEN CoefNaN
        ELSE Coef(cov, varx, vary)

\* abs(c) > t / 100, that is (100 |cov|)^2 > t^2 varx vary; a comparison
\* with NaN is false
AbsGreater(c, t) ==
    /\ ~c.nan
    /\ c.cov # 0
    /\ FracGreater(100 * Abs(c.cov), t * c.varx, t * c.vary, 100 * Abs(c.cov))
AbsGreaterOrEqual(c, t) ==
    /\ ~c.nan
    /\ c.cov # 0
    /\ ~FracGreater(t * c.vary, 100 * Abs(c.cov), 100 * Abs(c.cov), t * c.varx)

\* the branch on abs(correlation)
InterpretStrengthInclusive(c) ==
    IF AbsGreaterOrEqual(c, StrongThreshold) THEN "strong"
    ELSE IF AbsGreaterOrEqual(c, ModerateThreshold) THEN "moderate"
    ELSE "weak"
InterpretStrength(c) ==
    IF AbsGreater(c, StrongThreshold) THEN "strong"
    ELSE IF AbsGreater(c, ModerateThreshold) THEN "moderate"
    ELSE "weak"

(***************************************************************************)
(* Regional aggregation (groupby('Region').agg(mean), idxmax, idxmin)      *)
(***************************************************************************)
\* the region labels of the model, in ascending (alphabetical) order
RegionOrder == <<"Midwest", "Northeast", "South", "West">>
Metrics == <<"Median_Income", "Poverty_Rate", "Cancer_Rate">>

\* groupby's keys: the distinct labels of the column, sorted, missing dropped
GroupKeys(df) ==
    LET region == GetColumn(df, "Region").vals
        present(lab) == \E i \in 1..Len(region) : region[i] = S(lab)
    IN  SelectSeq(RegionOrder, present)

\* a mean is held exactly as sum / cnt; it is NaN over no value
GroupMean(df, metric, key) ==
    LET region == GetColumn(df, "Region").vals
        vals == GetColumn(df, metric).vals
        used == {i \in 1..Len(vals) : region[i] = S(key) /\ ~IsMissing(vals[i])}
        val == [i \in 1..Len(vals) |-> IF i \in used THEN vals[i].v ELSE 0]
    IN  [nan |-> used = {}, sum |-> SumOver(val, Len(vals)),
         cnt |-> IF used = {} THEN 1 ELSE Cardinality(used)]

MeanLess(a, b) == a.sum * b.cnt < b.sum * a.cnt

\* whether .agg({...: 'mean'}) raises: a metric that is no column (KeyError)
\* or that holds objects (TypeError)
AggRaises(df) ==
    \E m \in 1..Len(Metrics) :
        \/ ~HasColumn(df, Metrics[m])
        \/ GetColumn(df, Metrics[m]).dtype = "object"

\* regional_stats: one record per key, in key order
RegionalStats(df) ==
    LET keys == GroupKeys(df)
    IN  [g \in 1..Len(keys) |->
            [Region |-> keys[g],
             Median_Income |-> GroupMean(df, "Median_Income", keys[g]),
             Poverty_Rate |-> GroupMean(df, "Poverty_Rate", keys[g]),
             Cancer_Rate |-> GroupMean(df, "Cancer_Rate", keys[g])]]

Valid(stats) == {g \in 1..Len(stats) : ~stats[g].Cancer_Rate.nan}
\* idxmax / idxmin skip NaN and return the first position of the extreme
IdxMax(stats) ==
    CHOOSE g \in Valid(stats) :
        /\ \A h \in Valid(stats) :
              ~MeanLess(stats[g].Cancer_Rate, stats[h].Cancer_Rate)
        /\ \A h \in Valid(stats) :
              h < g => MeanLess(stats[h].Cancer_Rate, stats[g].Cancer_Rate)
IdxMin(stats) ==
    CHOOSE g \in Valid(stats) :
        /\ \A h \in Valid(stats) :
              ~MeanLess(stats[h].Cancer_Rate, stats[g].Cancer_Rate)
        /\ \A h \in Valid(stats) :
              h < g => MeanLess(stats[g].Cancer_Rate, stats[h].Cancer_Rate)

(***************************************************************************)
(* One pass of a script.  The record r is what the pass has bound and      *)
(* rendered so far; a stage runs only while the pass is still running.     *)
(***************************************************************************)
CancerApp == "streamlit_cancer_app.py"
SimpleApp == "streamlit_app.py"

BlankRun ==
    [status |-> "running", error |-> "", stages |-> <<>>,
     df |-> Unbound, source |-> "none", notice |-> "",
     hist_options |-> <<>>, hist_col |-> "", numeric_cols |-> <<>>,
     x_shown |-> FALSE, y_shown |-> FALSE, x_col |-> "", y_col |-> "",
     correlation |-> CoefNaN, shown |-> "", label |-> "",
     regional_stats |-> <<>>, highest |-> "", lowest |-> "",
     region_notice |-> ""]

Raise(r, e) == [r EXCEPT !.status = "raised", !.error = e]
Done(r, stage) == [r EXCEPT !.stages = Append(@, stage)]

\* what ingestion leaves: the pass so far, the cache and the generator
Bind(df, source, notice, c, g) ==
    [run |-> [BlankRun EXCEPT !.df = df, !.source = source, !.notice = notice],
     cache |-> c, rng |-> g]
BindDemo(d, notice) == Bind(d.value, "demo", notice, d.cache, d.rng)
BindUpload(rd, c, g) == Bind(rd.df, "upload", "success", c, g)
Stop(c, g) ==
    [run |-> [BlankRun EXCEPT !.notice = "warning", !.status = "stopped"],
     cache |-> c, rng |-> g]

\* The table selection of streamlit_cancer_app.py.  c and g are the cache and
\* the generator the pass starts with, rd is what the reader returns and d
\* what load_demo_data() returns, each where the script calls it.
SelectTableNoCatch(file, demo, c, g, rd, d) ==
    IF file # NoFile
    THEN IF rd.ok THEN BindUpload(rd, c, g)
         ELSE [run |-> Raise(BlankRun, "ParserError"), cache |-> c, rng |-> g]
    ELSE IF demo THEN BindDemo(d, "info")
    ELSE Stop(c, g)
SelectTableNoStop(file, demo, c, g, rd, d) ==
    IF file # NoFile
    THEN IF rd.ok THEN BindUpload(rd, c, g) ELSE BindDemo(d, "error")
    ELSE IF demo THEN BindDemo(d, "info")
    ELSE [run |-> [BlankRun EXCEPT !.notice = "warning"], cache |-> c, rng |-> g]
SelectTableDemoFirst(file, demo, c, g, rd, d) ==
    IF demo THEN BindDemo(d, "info")
    ELSE IF file # NoFile
    THEN IF rd.ok THEN BindUpload(rd, c, g) ELSE BindDemo(d, "error")
    ELSE Stop(c, g)
SelectTable(file, demo, c, g, rd, d) ==
    IF file # NoFile
    THEN IF rd.ok THEN BindUpload(rd, c, g) ELSE BindDemo(d, "error")
    ELSE IF demo THEN BindDemo(d, "info")
    ELSE Stop(c, g)

IngestCancer(file, demo, c, g) ==
    SelectTable(file, demo, c, g, ReadUpload(file), LoadDemoData(c, g))

\* Data Preview and Summary Statistics: df.head(), df.describe()
Preview(r) ==
    IF ~r.df.bound THEN Raise(r, "NameError")
    ELSE IF Len(r.df.cols) = 0 THEN Raise(r, "ValueError")
    ELSE Done(r, "preview")

\* Distribution Analysis: the selectbox offers the numeric columns and
\* returns the first one, or None when there is none; df[None] raises
Distribution(r) ==
    IF ~r.df.bound THEN Raise(r, "NameError")
    ELSE LET options == HistOptions(r.df)
             r1 == [r EXCEPT !.hist_options = options,
                             !.hist_col = IF options = <<>> THEN ""
                                          ELSE options[1]]
         IN  IF options = <<>> THEN Raise(r1, "KeyError")
             ELSE Done(r1, "distribution")

\* Correlation Matrix: numeric_df, numeric_df.corr() and its heatmap, which
\* raises on a frame without columns
CorrelationMatrix(r) ==
    IF ~r.df.bound THEN Raise(r, "NameError")
    ELSE LET numeric_df == SelectDtypes(r.df)
             r1 == [r EXCEPT !.numeric_cols = ColumnNames(numeric_df)]
         IN  IF Len(numeric_df.cols) = 0 THEN Raise(r1, "ValueError")
             ELSE Done(r1, "matrix")

\* st.selectbox(options, index): an index outside the options raises
SelectboxRaises(options, index) ==
    Len(options) > 0 /\ ~(0 <= index /\ index < Len(options))
SelectboxValue(options, index) ==
    IF options = <<>> THEN "" ELSE options[index + 1]

IndexOf(sel, default) == IF sel = Default THEN default ELSE sel

\* Relationship Explorer: the two selectboxes, the scatter plot and the
\* regression line, which raises when no row holds both values
Explorer(r, xs, ys) ==
    LET options == r.numeric_cols
        xi == IndexOf(xs, XDefaultIndex)
        yi == IndexOf(ys, YDefaultIndex)
        r1 == [r EXCEPT !.x_shown = TRUE,
                        !.x_col = SelectboxValue(options, xi)]
        r2 == [r1 EXCEPT !.y_shown = TRUE,
                         !.y_col = SelectboxValue(options, yi)]
    IN  IF SelectboxRaises(options, xi)
        THEN Raise(r, "StreamlitAPIException")
        ELSE IF SelectboxRaises(options, yi)
        THEN Raise(r1, "StreamlitAPIException")
        ELSE IF PairedRows(GetColumn(r.df, r2.x_col).vals,
                           GetColumn(r.df, r2.y_col).vals) = {}
        THEN Raise(r2, "ValueError")
        ELSE Done(r2, "explorer")

\* Calculate correlation: the coefficient, its rendering with :.3f and the
\* strength message
Pairwise(r) ==
    LET correlation == SeriesCorr(GetColumn(r.df, r.x_col).vals,
                                  GetColumn(r.df, r.y_col).vals)
    IN  Done([r EXCEPT !.correlation = correlation,
                       !.shown = IF correlation.nan THEN "nan" ELSE "number",
                       !.label = InterpretStrength(correlation)],
             "pairwise")

\* Regional Analysis
Regional(r) ==
    IF ~r.df.bound THEN Raise(r, "NameError")
    ELSE IF ~HasColumn(r.df, "Region")
    THEN Done([r EXCEPT !.region_notice = "warning"], "regional")
    ELSE IF AggRaises(r.df) THEN Raise(r, "KeyError")
    ELSE LET stats == RegionalStats(r.df)
             r1 == [r EXCEPT !.regional_stats = stats]
         IN  IF Valid(stats) = {} THEN Raise(r1, "ValueError")
             ELSE Done([r1 EXCEPT
                           !.highest = stats[IdxMax(stats)].Region,
                           !.lowest = stats[IdxMin(stats)].Region],
                       "regional")

\* Key Findings and the footer
Findings(r) == [Done(r, "findings") EXCEPT !.status = "completed"]

CancerStages ==
    <<"preview", "distribution", "matrix", "explorer", "pairwise",
      "regional", "findings">>

\* the stage of streamlit_cancer_app.py of that name, run on r
CancerStage(stage, r, xs, ys) ==
    CASE stage = "preview" -> Preview(r)
      [] stage = "distribution" -> Distribution(r)
      [] stage = "matrix" -> CorrelationMatrix(r)
      [] stage = "explorer" -> Explorer(r, xs, ys)
      [] stage = "pairwise" -> Pairwise(r)
      [] stage = "regional" -> Regional(r)
      [] OTHER -> Findings(r)

\* the stages from the k-th on, in the script's order, while the pass runs
RECURSIVE CancerFrom(_, _, _, _)
CancerFrom(k, r, xs, ys) ==
    IF k > Len(CancerStages) \/ r.status # "running" THEN r
    ELSE CancerFrom(k + 1, CancerStage(CancerStages[k], r, xs, ys), xs, ys)

AfterIngest(in, xs, ys) ==
    [run |-> CancerFrom(1, in.run, xs, ys), cache |-> in.cache, rng |-> in.rng]

RunCancerApp(file, demo, xs, ys, c, g) ==
    AfterIngest(IngestCancer(file, demo, c, g), xs, ys)

(***************************************************************************)
(* streamlit_app.py                                                        *)
(***************************************************************************)
\* rd is what pd.read_excel returns
SelectTableSimple(file, rd) ==
    IF file = NoFile
    THEN [BlankRun EXCEPT !.notice = "warning", !.status = "completed"]
    ELSE IF rd.ok
    THEN [BlankRun EXCEPT !.df = rd.df, !.source = "upload"]
    ELSE Raise(BlankRun, "ValueError")

IngestSimple(file) == SelectTableSimple(file, ReadExcel(file))

\* Data Preview: df.head()
PreviewHead(r) == Done(r, "preview")

\* the two selectboxes (index 0 unless chosen) and the scatter plot
Scatter(r, xs, ys) ==
    LET options == r.numeric_cols
        xi == IndexOf(xs, 0)
        yi == IndexOf(ys, 0)
    IN  IF SelectboxRaises(options, xi) \/ SelectboxRaises(options, yi)
        THEN Raise(r, "StreamlitAPIException")
        ELSE Done([r EXCEPT !.x_shown = TRUE, !.y_shown = TRUE,
                            !.x_col = SelectboxValue(options, xi),
                            !.y_col = SelectboxValue(options, yi)],
                  "scatter")

\* R-Script Simulation: fixed text
Simulation(r) == [Done(r, "simulation") EXCEPT !.status = "completed"]

SimpleStages == <<"preview", "matrix", "scatter", "simulation">>

SimpleStage(stage, r, xs, ys) ==
    CASE stage = "preview" -> PreviewHead(r)
      [] stage = "matrix" -> CorrelationMatrix(r)
      [] stage = "scatter" -> Scatter(r, xs, ys)
      [] OTHER -> Simulation(r)

RECURSIVE SimpleFrom(_, _, _, _)
SimpleFrom(k, r, xs, ys) ==
    IF k > Len(SimpleStages) \/ r.status # "running" THEN r
    ELSE SimpleFrom(k + 1, SimpleStage(SimpleStages[k], r, xs, ys), xs, ys)

RunSimpleApp(file, xs, ys, c, g) ==
    [run |-> SimpleFrom(1, IngestSimple(file), xs, ys), cache |-> c, rng |-> g]

Pass(a, file, demo, xs, ys, c, g) ==
    IF a = CancerApp THEN RunCancerApp(file, demo, xs, ys, c, g)
    ELSE RunSimpleApp(file, xs, ys, c, g)

(***************************************************************************)
(* The files a user may upload                                             *)
(***************************************************************************)
Col(name, role) == [name |-> name, role |-> role]

Layouts ==
    << \* the columns of the demo table
       << Col("County", "text"), Col("Region", "region"),
          Col("Median_Income", "num"), Col("Poverty_Rate", "num"),
          Col("Education_Level", "num"), Col("Cancer_Rate", "num"),
          Col("Lung_Cancer_Rate", "num"), Col("Breast_Cancer_Rate", "num") >>,
       \* no Region
       << Col("County", "text"),
          Col("Median_Income", "num"), Col("Poverty_Rate", "num"),
          Col("Education_Level", "num"), Col("Cancer_Rate", "num"),
          Col("Lung_Cancer_Rate", "num"), Col("Breast_Cancer_Rate", "num") >>,
       \* Region, but the income under another name
       << Col("Region", "region"),
          Col("Income", "num"), Col("Poverty_Rate", "num"),
          Col("Education_Level", "num"), Col("Cancer_Rate", "num"),
          Col("Lung_Cancer_Rate", "num"), Col("Breast_Cancer_Rate", "num") >>,
       \* three measurements
       << Col("Region", "region"), Col("Median_Income", "num"),
          Col("Poverty_Rate", "num"), Col("Cancer_Rate", "num") >>,
       \* one measurement
       << Col("Region", "region"), Col("Cancer_Rate", "text"),
          Col("Deaths", "num") >>,
       \* no measurement
       << Col("County", "text"), Col("Region", "region") >>,
       \* counts too large for an int64
       << Col("Region", "region"), Col("Population", "big"),
          Col("Median_Income", "num"), Col("Poverty_Rate", "num"),
          Col("Cancer_Rate", "num") >> >>

NumCell(pool, i, j) ==
    CASE pool = 0 -> I(i + j)
      [] pool = 1 -> F(10 - 2 * i)
      [] pool = 2 -> I(7)
      [] pool = 3 -> IF i = 1 THEN NaN ELSE I(3 * i)
      [] OTHER -> NaN
TextCell(pool, i) ==
    CASE pool = 0 -> S("a")
      [] pool = 1 -> B(TRUE)
      [] OTHER -> IF i = 1 THEN I(1) ELSE S("x")
RegionCell(pool, i) ==
    CASE pool = 0 -> S(RegionChoices[((i - 1) % Len(RegionChoices)) + 1])
      [] pool = 1 -> S("South")
      [] OTHER -> NaN

\* the grid of layout l with n rows, its cells taken from the pools in turn
Grid(l, n, v) ==
    [j \in 1..Len(Layouts[l]) |->
        [name |-> Layouts[l][j].name,
         vals |-> [i \in 1..n |->
             CASE Layouts[l][j].role = "num" -> NumCell((j + v) % 5, i, j)
               [] Layouts[l][j].role = "text" -> TextCell((j + v) % 3, i)
               [] Layouts[l][j].role = "big" -> U(i)
               [] OTHER -> RegionCell((v + 2) % 3, i)]]]

\* a well-formed file of that grid: comma-separated text for the even
\* variants, a workbook for the odd ones
FileOf(l, n, v) ==
    IF v % 2 = 0 THEN UploadedFile(".csv", "csv", Grid(l, n, v))
    ELSE UploadedFile(".xlsx", "xlsx", Grid(l, n, v))

\* What the uploader of streamlit_cancer_app.py accepts (.xlsx or .csv): the
\* well-formed files, a workbook with an empty sheet, files that are not of
\* the format their name announces
Uploads ==
    {FileOf(l, n, v) : l \in 1..Len(Layouts), n \in 0..MaxRows,
                       v \in 0..Variants - 1}
    \cup {UploadedFile(".xlsx", "xlsx", <<>>),
          UploadedFile(".csv", "garbage", <<>>),
          UploadedFile(".xlsx", "garbage", <<>>),
          UploadedFile(".xlsx", "csv", Grid(1, 1, 0))}
\* what the uploader of streamlit_app.py accepts (.xlsx)
Accepted(a) ==
    IF a = CancerApp THEN Uploads ELSE {f \in Uploads : f.ext = ".xlsx"}

(***************************************************************************)
(* The session: every interaction changes a widget and runs the script     *)
(***************************************************************************)
\* The widgets after a pass.  A selectbox keeps the user's choice while it
\* is rendered with the same options, and starts from its index otherwise.
Rerun(file, demo, xs, ys) ==
    \E fresh \in {Pass(app, file, demo, Default, Default, cache, rng)} :
        LET same == fresh.run.numeric_cols = run.numeric_cols
            xk == IF same /\ run.x_shown THEN xs ELSE Default
            yk == IF same /\ run.y_shown THEN ys ELSE Default
        IN  \E out \in {IF xk = Default /\ yk = Default THEN fresh
                        ELSE Pass(app, file, demo, xk, yk, cache, rng)} :
                /\ uploaded_file' = file
                /\ use_demo' = demo
                /\ run' = out.run
                /\ cache' = out.cache
                /\ rng' = out.rng
                /\ x_sel' = IF out.run.x_shown THEN xk ELSE Default
                /\ y_sel' = IF out.run.y_shown THEN yk ELSE Default
                /\ UNCHANGED <<app, returned, draws, row, coefficient, label>>

Upload(file) ==
    /\ file \in Accepted(app)
    /\ file # uploaded_file
    /\ Rerun(file, use_demo, x_sel, y_sel)

ClearUpload ==
    /\ uploaded_file # NoFile
    /\ Rerun(NoFile, use_demo, x_sel, y_sel)

ToggleUseDemo ==
    /\ app = CancerApp
    /\ Rerun(uploaded_file, ~use_demo, x_sel, y_sel)

SelectX(i) ==
    /\ run.x_shown
    /\ i \in 0..Len(run.numeric_cols) - 1
    /\ Rerun(uploaded_file, use_demo, i, y_sel)

SelectY(i) ==
    /\ run.y_shown
    /\ i \in 0..Len(run.numeric_cols) - 1
    /\ Rerun(uploaded_file, use_demo, x_sel, i)

NoDraws ==
    [income |-> 0, poverty |-> 0, education |-> 0,
     noise_cancer |-> 0, noise_lung |-> 0, noise_breast |-> 0]
NoRow == DemoRow(NoDraws, "")

\* the variables of the other specifications, which a session leaves alone
NoGenerator ==
    /\ returned = <<>>
    /\ draws = NoDraws
    /\ row = NoRow
NoStrength ==
    /\ coefficient = 0
    /\ label = ""
NoSession ==
    /\ app = CancerApp
    /\ uploaded_file = NoFile
    /\ use_demo = TRUE
    /\ x_sel = Default
    /\ y_sel = Default
    /\ run = BlankRun

\* The server starts the script once: no upload, the checkbox ticked, nothing
\* cached, the generator in a state taken from the system's entropy.
Init ==
    /\ app \in {CancerApp, SimpleApp}
    /\ uploaded_file = NoFile
    /\ use_demo = TRUE
    /\ x_sel = Default
    /\ y_sel = Default
    /\ \E g \in {0, RngMod - 1} :
          \E first \in {Pass(app, NoFile, TRUE, Default, Default, EmptyCache, g)} :
              /\ run = first.run
              /\ cache = first.cache
              /\ rng = first.rng
    /\ NoGenerator
    /\ NoStrength

Next ==
    \/ \E f \in Uploads : Upload(f)
    \/ ClearUpload
    \/ ToggleUseDemo
    \/ \E i \in 0..Len(run.numeric_cols) - 1 : SelectX(i)
    \/ \E i \in 0..Len(run.numeric_cols) - 1 : SelectY(i)

Spec == Init /\ [][Next]_vars

(***************************************************************************)
(* Calls of load_demo_data, from any pass of any session of the server.    *)
(* Other code of the process may draw from the global generator or reseed  *)
(* it between two calls, and the cache may be cleared or lost (a restart). *)
(***************************************************************************)
CallLoadDemoData ==
    \E d \in {LoadDemoData(cache, rng)} :
        /\ returned' = <<[value |-> d.value, hit |-> d.hit, entered |-> rng]>>
                       \o (IF returned = <<>> THEN <<>> ELSE <<returned[1]>>)
        /\ cache' = d.cache
        /\ rng' = d.rng
        /\ UNCHANGED <<app, uploaded_file, use_demo, x_sel, y_sel, run,
                       draws, row, coefficient, label>>

PerturbRng ==
    /\ \E g \in 0..RngMod - 1 : g # rng /\ rng' = g
    /\ UNCHANGED <<app, uploaded_file, use_demo, x_sel, y_sel, run, cache,
                   returned, draws, row, coefficient, label>>

ClearCache ==
    /\ cache.filled
    /\ cache' = EmptyCache
    /\ UNCHANGED <<app, uploaded_file, use_demo, x_sel, y_sel, run, rng,
                   returned, draws, row, coefficient, label>>

DemoInit ==
    /\ NoSession
    /\ cache = EmptyCache
    /\ rng \in 0..RngMod - 1
    /\ NoGenerator
    /\ NoStrength

DemoNext == CallLoadDemoData \/ PerturbRng \/ ClearCache

DemoSpec == DemoInit /\ [][DemoNext]_vars

(***************************************************************************)
(* One row of load_demo_data, for draws of the normal variates as far out  *)
(* as ZMax standard deviations                                             *)
(***************************************************************************)
Extremes == {-ZMax, 0, ZMax}

GenerateRow ==
    /\ row = NoRow
    /\ \E r \in {RegionChoices[i] : i \in 1..Len(RegionChoices)} :
          row' = DemoRow(draws, r)
    /\ UNCHANGED <<app, uploaded_file, use_demo, x_sel, y_sel, run, cache,
                   rng, returned, draws, coefficient, label>>

DrawInit ==
    /\ NoSession
    /\ cache = EmptyCache
    /\ rng = 0
    /\ returned = <<>>
    /\ draws \in [income : Extremes, poverty : Extremes, education : {0},
                  noise_cancer : Extremes, noise_lung : Extremes,
                  noise_breast : Extremes]
    /\ row = NoRow
    /\ NoStrength

DrawNext == GenerateRow

DrawSpec == DrawInit /\ [][DrawNext]_vars

(***************************************************************************)
(* The strength message for a coefficient in [-1, 1]                       *)
(***************************************************************************)
Interpret ==
    /\ label = ""
    /\ label' = InterpretStrength(CoefOfHundredths(coefficient))
    /\ UNCHANGED <<app, uploaded_file, use_demo, x_sel, y_sel, run, cache,
                   rng, returned, draws, row, coefficient>>

StrengthInit ==
    /\ NoSession
    /\ cache = EmptyCache
    /\ rng = 0
    /\ NoGenerator
    /\ coefficient \in -RMax..RMax
    /\ label = ""

StrengthNext == Interpret

StrengthSpec == StrengthInit /\ [][StrengthNext]_vars

(***************************************************************************)
(* Properties of a session                                                 *)
(***************************************************************************)
\* the table load_demo_data returns
DemoTable == GenerateFrom(SeedState(Seed)).value

Ran(stage) == \E k \in 1..Len(run.stages) : run.stages[k] = stage

\* C1: in streamlit_cancer_app.py, whenever an upload is present and the
\* reader fails on it, the pass binds the demo table (with the error notice),
\* no exception leaves the pass, and every later stage, from the preview to
\* the key findings, runs and computes its results on the demo table.
C1_UnparseableUploadFallsBack ==
    (app = CancerApp /\ uploaded_file # NoFile /\ ~ReadUpload(uploaded_file).ok)
    => /\ run.df = DemoTable
       /\ run.source = "demo"
       /\ run.notice = "error"
       /\ run.error = ""
       /\ run.status = "completed"
       /\ run.stages = CancerStages
       /\ run.hist_options = HistOptions(DemoTable)
       /\ run.numeric_cols = ColumnNames(SelectDtypes(DemoTable))
       /\ run.regional_stats = RegionalStats(DemoTable)

C1_Witness ==
    /\ app = CancerApp
    /\ uploaded_file.format = "garbage"
    /\ run.source = "demo"
    /\ Ran("findings")

C3_PassRunsToTheFooter ==
    (app = CancerApp /\ run.df.bound)
    => /\ run.status = "completed"
       /\ run.error = ""
       /\ run.stages = CancerStages

\* C5 as stated: whenever the selected pair has fewer than 2 rows with both
\* values, or a column of zero variance over them, the pairwise correlation
\* is surfaced as undefined: it is not shown as a number and the
\* interpreting step gives it no strength label.
C5_UndefinedIsSurfaced ==
    (app = CancerApp /\ Ran("pairwise") /\ run.correlation.nan)
    => /\ run.shown = "undefined"
       /\ run.label = "undefined"

\* the number of regions that the ranking of the spec puts before region g:
\* those of a higher mean Cancer_Rate and, among equal means, those of a
\* smaller label (stats is in ascending label order)
Precedes(stats, h, g) ==
    \/ MeanLess(stats[g].Cancer_Rate, stats[h].Cancer_Rate)
    \/ /\ ~MeanLess(stats[h].Cancer_Rate, stats[g].Cancer_Rate)
       /\ h < g
Ranking(stats) ==
    [p \in 1..Cardinality(Valid(stats)) |->
        CHOOSE g \in Valid(stats) :
            Cardinality({h \in Valid(stats) : Precedes(stats, h, g)}) = p - 1]

\* C9 as stated: for every regional summary the highest and lowest regions
\* reported are the first and the last entry of the ranking by mean
\* Cancer_Rate, descending, ties by label ascending; with fewer than 2
\* regions the missing extreme is absent, and nothing is raised.
C9_ExtremesOfRanking ==
    (app = CancerApp /\ run.regional_stats # <<>>)
    => LET stats == run.regional_stats
           ranking == Ranking(stats)
       IN  /\ Ran("regional")
           /\ run.highest = IF Len(ranking) >= 1
                            THEN stats[ranking[1]].Region ELSE ""
           /\ run.lowest = IF Len(ranking) >= 2
                           THEN stats[ranking[Len(ranking)]].Region ELSE ""

\* C10: in streamlit_cancer_app.py the table of a pass is determined by the
\* upload and the checkbox as they are in that pass: a parsing upload is the
\* table whatever the checkbox, the demo table is used when the upload does
\* not parse or when there is none and the checkbox is ticked, and with
\* neither the pass stops before any stage.
C10_TableOfThisPass ==
    app = CancerApp =>
        IF uploaded_file # NoFile /\ ReadUpload(uploaded_file).ok
        THEN run.source = "upload" /\ run.df = ReadUpload(uploaded_file).df
        ELSE IF uploaded_file # NoFile \/ use_demo
        THEN run.source = "demo" /\ run.df = DemoTable
        ELSE run.source = "none" /\ ~run.df.bound /\ run.stages = <<>>
             /\ run.status = "stopped"

C10_Witness ==
    /\ app = CancerApp
    /\ use_demo
    /\ uploaded_file # NoFile
    /\ run.source = "upload"
    /\ run.df # DemoTable

AllNonMissingNumbers(vals) ==
    \A i \in 1..Len(vals) : IsNumber(vals[i]) \/ IsMissing(vals[i])
\* the names of the columns of df whose non-missing values are all numbers,
\* in the table's order
NumericByValues(df) ==
    SelectSeq(ColumnNames(df),
              LAMBDA n : AllNonMissingNumbers(GetColumn(df, n).vals))
\* C8 as stated: for every table, the numeric list holds, in the table's
\* order, exactly the columns whose non-missing values are all numbers
\* (whole or not), and the list of the distribution selector equals the one
\* of the correlation matrix and of the x/y selectors.
C8_NumericByValues ==
    /\ (app = CancerApp /\ Ran("preview"))
       => run.hist_options = NumericByValues(run.df)
    /\ (app = CancerApp /\ Ran("distribution"))
       => run.numeric_cols = run.hist_options
    /\ (app = SimpleApp /\ Ran("preview"))
       => run.numeric_cols = NumericByValues(run.df)

(***************************************************************************)
(* Properties of the strength message                                      *)
(***************************************************************************)
\* C4: for every coefficient r in [-1, 1] (here in hundredths) the label is
\* "strong" exactly when |r| > 0.7, "moderate" exactly when
\* 0.4 < |r| <= 0.7 and "weak" otherwise, so that |r| = 0.7 is moderate and
\* |r| = 0.4 is weak; one label is produced.
C4_StrengthLabel ==
    label # "" =>
        /\ label \in {"strong", "moderate", "weak"}
        /\ label = "strong" <=> Abs(coefficient) > 70
        /\ label = "moderate" <=>
              (40 < Abs(coefficient) /\ Abs(coefficient) <= 70)
        /\ label = "weak" <=> Abs(coefficient) <= 40

C4_Witness ==
    /\ coefficient = -70
    /\ label = "moderate"

(***************************************************************************)
(* Properties of load_demo_data                                            *)
(***************************************************************************)
\* C6: two invocations of load_demo_data return the same table (columns,
\* values, row order), whatever the generator's state and the cache's
\* content before each and whatever ran in between.
C6_SameTable ==
    Len(returned) = 2 =>
        /\ returned[1].value.bound
        /\ returned[1].value = returned[2].value

\* two runs of the body, entered with the generator in different states
C6_Witness ==
    /\ Len(returned) = 2
    /\ ~returned[1].hit
    /\ ~returned[2].hit
    /\ returned[1].entered # returned[2].entered

\* C7 as stated: every value of Cancer_Rate, Lung_Cancer_Rate and
\* Breast_Cancer_Rate is floored at a minimum and so is never negative,
\* for every draw of the socio-economic values and of the noise.
C7_IncidenceFloored ==
    row # NoRow =>
        /\ row.Cancer_Rate >= 0
        /\ row.Lung_Cancer_Rate >= 0
        /\ row.Breast_Cancer_Rate >= 0

=============================================================================
